---------------------------- MODULE Spec2Model ----------------------------
(***************************************************************************)
(* Model of the access-control core of dawamr/sia-hono:                    *)
(*   - the Permission value object (core/domain/value-objects/Permission), *)
(*   - the Role entity (core/domain/entities/Role).                        *)
(*                                                                         *)
(* A JavaScript string is modelled as a finite sequence of atoms.  An atom *)
(* is either the separator ":" or a word that contains no ":".  No word of *)
(* the alphabets used below is a concatenation of other words, so two      *)
(* sequences are equal exactly when the strings they spell are equal.      *)
(* `undefined` is the one-atom sequence Undefined, whose atom is in no     *)
(* alphabet, so it differs from every string (the empty string included).  *)
(***************************************************************************)
EXTENDS Integers, Sequences, FiniteSets, TLC

VARIABLES
    call,       \* ConstructSpec: the constructor call under examination
    perm1,      \* ConstructSpec: what that call produced
    str1,       \* ConstructSpec: perm1.toString()
    perm2,      \* ConstructSpec: Permission.create(str1)
    str2,       \* ConstructSpec: perm2.toString()
    pcC,        \* ConstructSpec: position in the scenario
    held,       \* MatchSpec: the permission `this` of matches / implies
    required,   \* MatchSpec: the permission passed to matches / implies
    matched,    \* MatchSpec: the value returned by matches
    pcM,        \* MatchSpec: position in the scenario
    role,       \* RoleSpec: the fields of the Role instance
    now,        \* RoleSpec: the clock read by `new Date()`
    lastOp,     \* RoleSpec: the last method called on the role, its argument and result
    heap,       \* AliasSpec: the contents of every array object
    stored,     \* AliasSpec: the array object `this.permissions` refers to
    callerArrays, \* AliasSpec: for each array object, how the caller came to hold it
    user,       \* UserSpec: the fields of the User instance
    userOp,     \* UserSpec: the last method called on the user, its argument and result
    table,      \* the rows of the roles table
    execs       \* for each use-case execution: its DTO, its position and what it holds

vars == <<call, perm1, str1, perm2, str2, pcC, held, required, matched, pcM, role, now, lastOp,
          heap, stored, callerArrays, user, userOp, table, execs>>

constructVars == <<call, perm1, str1, perm2, str2, pcC>>
matchVars == <<held, required, matched, pcM>>
roleVars == <<role, now, lastOp>>
aliasVars == <<heap, stored, callerArrays>>
userVars == <<user, userOp>>
repoVars == <<table, execs>>

-----------------------------------------------------------------------------
(* Strings                                                                 *)

Colon == ":"

Undefined == <<"#undefined">>

Str(word) == <<word>>

\* JavaScript truthiness of a `string | undefined` value.
Truthy(s) == s # Undefined /\ s # <<>>

\* All sequences over S of length at most n.
SeqsUpTo(S, n) == UNION {[1..k -> S] : k \in 0..n}

\* Index of the first ":" of s, 0 when there is none.
FirstColon(s) ==
    IF \E i \in 1..Len(s) : s[i] = Colon
    THEN CHOOSE i \in 1..Len(s) : s[i] = Colon /\ \A j \in 1..(i - 1) : s[j] # Colon
    ELSE 0

\* String.prototype.split(':'): the list of the parts between the colons;
\* a string without a colon (the empty string too) is a single part.
RECURSIVE split(_)
split(s) ==
    LET i == FirstColon(s)
    IN  IF i = 0
        THEN <<s>>
        ELSE <<SubSeq(s, 1, i - 1)>> \o split(SubSeq(s, i + 1, Len(s)))

\* Array destructuring `const [resource, action, scope] = parts`.
Element(parts, i) == IF i <= Len(parts) THEN parts[i] ELSE Undefined

-----------------------------------------------------------------------------
(* Permission                                                              *)

validResources ==
    { Str("user"), Str("role"), Str("student"), Str("teacher"), Str("class"),
      Str("subject"), Str("assignment"), Str("grade"), Str("attendance"),
      Str("schedule"), Str("announcement"), Str("report"), Str("system") }

validActions ==
    { Str("create"), Str("read"), Str("update"), Str("delete"), Str("manage") }

isValidResource(resource) == resource \in validResources

isValidAction(action) == action \in validActions

\* `new Permission(resource, action, scope)`
Permission(resource, action, scope) ==
    [resource |-> resource, action |-> action, scope |-> scope]

NoPermission == Permission(Undefined, Undefined, Undefined)

Ok(p) == [error |-> "none", detail |-> Undefined, value |-> p]

Throw(kind, detail) == [error |-> kind, detail |-> detail, value |-> NoPermission]

NotCalled == [error |-> "not called", detail |-> Undefined, value |-> NoPermission]

createActionFirst(permissionString) ==
    LET parts == split(permissionString)
        resource == Element(parts, 1)
        action == Element(parts, 2)
        scope == Element(parts, 3)
    IN  IF Len(parts) < 2 \/ Len(parts) > 3
        THEN Throw("InvalidFormat", Undefined)
        ELSE IF ~isValidAction(action)
        THEN Throw("InvalidAction", action)
        ELSE IF ~isValidResource(resource)
        THEN Throw("InvalidResource", resource)
        ELSE Ok(Permission(resource, action, scope))

create(permissionString) ==
    LET parts == split(permissionString)
        resource == Element(parts, 1)
        action == Element(parts, 2)
        scope == Element(parts, 3)
    IN  IF Len(parts) < 2 \/ Len(parts) > 3
        THEN Throw("InvalidFormat", Undefined)
        ELSE IF ~isValidResource(resource)
        THEN Throw("InvalidResource", resource)
        ELSE IF ~isValidAction(action)
        THEN Throw("InvalidAction", action)
        ELSE Ok(Permission(resource, action, scope))

fromComponents(resource, action, scope) == Ok(Permission(resource, action, scope))

toStringAlwaysScoped(p) ==
    p.resource \o <<Colon>> \o p.action \o <<Colon>>
        \o (IF p.scope = Undefined THEN <<>> ELSE p.scope)

toString(p) ==
    IF Truthy(p.scope)
    THEN p.resource \o <<Colon>> \o p.action \o <<Colon>> \o p.scope
    ELSE p.resource \o <<Colon>> \o p.action

matchesAnyScope(this, req) ==
    IF this.resource # req.resource THEN FALSE
    ELSE IF this.action = Str("manage") THEN TRUE
    ELSE this.action = req.action

matchesNoWildcard(this, req) ==
    IF this.resource # req.resource THEN FALSE
    ELSE IF this.action # req.action THEN FALSE
    ELSE IF Truthy(req.scope) THEN ~Truthy(this.scope) \/ this.scope = req.scope
    ELSE TRUE

matchesWildcardFirst(this, req) ==
    IF this.action = Str("manage") THEN TRUE
    ELSE IF this.resource # req.resource THEN FALSE
    ELSE IF this.action # req.action THEN FALSE
    ELSE IF Truthy(req.scope) THEN ~Truthy(this.scope) \/ this.scope = req.scope
    ELSE TRUE

matchesScopeStrict(this, req) ==
    IF this.resource # req.resource THEN FALSE
    ELSE IF this.action = Str("manage") THEN TRUE
    ELSE IF this.action # req.action THEN FALSE
    ELSE this.scope = req.scope

matches(this, req) ==
    IF this.resource # req.resource THEN FALSE
    ELSE IF this.action = Str("manage") THEN TRUE
    ELSE IF this.action # req.action THEN FALSE
    ELSE IF Truthy(req.scope) THEN ~Truthy(this.scope) \/ this.scope = req.scope
    ELSE TRUE

implies(this, other) == matches(this, other)


equalsByToString(this, other) == toString(this) = toString(other)

equals(this, other) ==
    /\ this.resource = other.resource
    /\ this.action = other.action
    /\ this.scope = other.scope

-----------------------------------------------------------------------------
(* Construction scenario: one constructor call, then toString, then        *)
(* Permission.create of the printed string, then toString again.           *)

MaxLen == 5

\* The words the input strings are spelled with: a resource, an action, the
\* separator and a word that is in neither enumeration.
Alphabet == {"grade", "read", Colon, "x"}

\* Every "resource:action" string over the two enumerations.
ResourceActionStrings ==
    {r \o <<Colon>> \o a : r \in validResources, a \in validActions}

InputStrings == SeqsUpTo(Alphabet, MaxLen) \cup ResourceActionStrings

\* What a caller can pass to fromComponents at run time: the parameter types
\* PermissionResource and PermissionAction are erased by compilation.
ComponentWords == {Str("grade"), Str("read"), Str("x")}

ComponentScopes == {Undefined, <<>>, Str("x")}

CreateCalls ==
    {[fn |-> "create", str |-> s, resource |-> Undefined, action |-> Undefined,
      scope |-> Undefined] : s \in InputStrings}

FromComponentsCalls ==
    {[fn |-> "fromComponents", str |-> Undefined, resource |-> r, action |-> a,
      scope |-> s] : r \in ComponentWords, a \in ComponentWords, s \in ComponentScopes}

ConstructIdle ==
    /\ call = [fn |-> "none", str |-> Undefined, resource |-> Undefined,
               action |-> Undefined, scope |-> Undefined]
    /\ perm1 = NotCalled
    /\ str1 = Undefined
    /\ perm2 = NotCalled
    /\ str2 = Undefined
    /\ pcC = "idle"

CreateCall ==
    /\ pcC = "call"
    /\ call.fn = "create"
    /\ perm1' = create(call.str)
    /\ pcC' = IF perm1'.error = "none" THEN "constructed" ELSE "thrown"
    /\ UNCHANGED <<call, str1, perm2, str2>>
    /\ UNCHANGED <<matchVars, roleVars, aliasVars, userVars, repoVars>>

FromComponentsCall ==
    /\ pcC = "call"
    /\ call.fn = "fromComponents"
    /\ perm1' = fromComponents(call.resource, call.action, call.scope)
    /\ pcC' = "constructed"
    /\ UNCHANGED <<call, str1, perm2, str2>>
    /\ UNCHANGED <<matchVars, roleVars, aliasVars, userVars, repoVars>>

ToStringFirst ==
    /\ pcC = "constructed"
    /\ str1' = toString(perm1.value)
    /\ pcC' = "printed"
    /\ UNCHANGED <<call, perm1, perm2, str2>>
    /\ UNCHANGED <<matchVars, roleVars, aliasVars, userVars, repoVars>>

CreateAgain ==
    /\ pcC = "printed"
    /\ perm2' = create(str1)
    /\ pcC' = IF perm2'.error = "none" THEN "reconstructed" ELSE "rethrown"
    /\ UNCHANGED <<call, perm1, str1, str2>>
    /\ UNCHANGED <<matchVars, roleVars, aliasVars, userVars, repoVars>>

ToStringSecond ==
    /\ pcC = "reconstructed"
    /\ str2' = toString(perm2.value)
    /\ pcC' = "done"
    /\ UNCHANGED <<call, perm1, str1, perm2>>
    /\ UNCHANGED <<matchVars, roleVars, aliasVars, userVars, repoVars>>

-----------------------------------------------------------------------------
(* Matching scenario: two constructed permissions, then matches / implies. *)

Scopes == {Undefined, <<>>, Str("class_123"), Str("class_456")}

\* The Permission values Permission.create returns for scopes in Scopes.
Permissions ==
    {Permission(r, a, s) : r \in validResources, a \in validActions, s \in Scopes}

MatchIdle ==
    /\ held = NoPermission
    /\ required = NoPermission
    /\ matched = FALSE
    /\ pcM = "idle"

Matches ==
    /\ pcM = "ready"
    /\ matched' = matches(held, required)
    /\ pcM' = "matches"
    /\ UNCHANGED <<held, required>>
    /\ UNCHANGED <<constructVars, roleVars, aliasVars, userVars, repoVars>>

Implies ==
    /\ pcM = "ready"
    /\ matched' = implies(held, required)
    /\ pcM' = "implies"
    /\ UNCHANGED <<held, required>>
    /\ UNCHANGED <<constructVars, roleVars, aliasVars, userVars, repoVars>>

Equals ==
    /\ pcM = "ready"
    /\ matched' = equals(held, required)
    /\ pcM' = "equals"
    /\ UNCHANGED <<held, required>>
    /\ UNCHANGED <<constructVars, roleVars, aliasVars, userVars, repoVars>>

-----------------------------------------------------------------------------
(* Role                                                                    *)

MaxPerms == 3

MaxTime == 2

Null == <<"#null">>

Space == " "

\* String.prototype.trim(): the string without its leading and trailing
\* whitespace.
RECURSIVE trim(_)
trim(s) ==
    IF s = <<>> THEN s
    ELSE IF Head(s) = Space THEN trim(Tail(s))
    ELSE IF s[Len(s)] = Space THEN trim(SubSeq(s, 1, Len(s) - 1))
    ELSE s

\* `value || fallback` for a `string | undefined` value.
OrElse(value, fallback) == IF Truthy(value) THEN value ELSE fallback

\* `value?.trim()`
OptionalTrim(value) == IF value = Undefined THEN Undefined ELSE trim(value)

\* The permission strings the role is given to store.
StoredStrings ==
    { <<"grade", Colon, "manage">>,
      <<"grade", Colon, "read">>,
      <<"grade", Colon, "update", Colon, "class_123">> }

\* The permission strings the role is asked about.
QueryStrings ==
    StoredStrings \cup
    { <<"GRADE", Colon, "MANAGE">>,
      <<"grade", Colon, "update">>,
      <<"grade", Colon, "update", Colon, "class_456">> }

\* The arrays a caller passes as `permissions`.
PermissionLists == SeqsUpTo(StoredStrings, MaxPerms)

\* The props a caller passes to Role.create; an omitted field is Undefined.
CreateProps ==
    [ name : {Str("teacher")},
      displayName : {Str("Teacher"), <<Space, "Teacher", Space>>},
      description : {Undefined, <<Space, "Teacher role">>},
      permissions : PermissionLists \cup {Undefined},
      tenantId : {Undefined} ]

\* Array.prototype.indexOf, 1-based; 0 stands for JavaScript's -1.
indexOf(array, x) ==
    IF \E i \in 1..Len(array) : array[i] = x
    THEN CHOOSE i \in 1..Len(array) : array[i] = x /\ \A j \in 1..(i - 1) : array[j] # x
    ELSE 0

\* Array.prototype.includes
includes(array, x) == indexOf(array, x) # 0

\* Array.prototype.splice(index, 1) on a 1-based index: the array without
\* that element.
splice(array, index) ==
    SubSeq(array, 1, index - 1) \o SubSeq(array, index + 1, Len(array))

\* Array.prototype.push
push(array, x) == Append(array, x)

\* The values crypto.randomUUID() can return.
Ids == {Str("uuid-1"), Str("uuid-2")}

\* Role.create at time `time`, with `id` the value of crypto.randomUUID().
RoleCreate(id, props, time) ==
    [ id |-> id,
      name |-> props.name,
      displayName |-> trim(props.displayName),
      description |-> OrElse(OptionalTrim(props.description), Null),
      permissions |-> IF props.permissions = Undefined THEN <<>> ELSE props.permissions,
      tenantId |-> OrElse(props.tenantId, Null),
      isActive |-> TRUE,
      createdAt |-> time,
      updatedAt |-> time ]

touchEpoch(r, time) == [r EXCEPT !.updatedAt = 0]

touch(r, time) == [r EXCEPT !.updatedAt = time]

hasPermissionMatching(r, permission) ==
    \E i \in 1..Len(r.permissions) :
        /\ create(r.permissions[i]).error = "none"
        /\ create(permission).error = "none"
        /\ matches(create(r.permissions[i]).value, create(permission).value)

hasPermission(r, permission) == includes(r.permissions, permission)

addPermissionTouching(r, permission, time) ==
    IF ~includes(r.permissions, permission)
    THEN touch([r EXCEPT !.permissions = push(@, permission)], time)
    ELSE touch(r, time)

addPermissionAlways(r, permission, time) ==
    touch([r EXCEPT !.permissions = push(@, permission)], time)

addPermission(r, permission, time) ==
    IF ~includes(r.permissions, permission)
    THEN touch([r EXCEPT !.permissions = push(@, permission)], time)
    ELSE r

removePermissionLast(r, permission, time) ==
    LET index == IF includes(r.permissions, permission)
                 THEN CHOOSE i \in 1..Len(r.permissions) :
                          /\ r.permissions[i] = permission
                          /\ \A j \in (i + 1)..Len(r.permissions) : r.permissions[j] # permission
                 ELSE 0
    IN  IF index > 0
        THEN touch([r EXCEPT !.permissions = splice(@, index)], time)
        ELSE r

removePermission(r, permission, time) ==
    LET index == indexOf(r.permissions, permission)
    IN  IF index > 0
        THEN touch([r EXCEPT !.permissions = splice(@, index)], time)
        ELSE r

setPermissions(r, permissions, time) ==
    touch([r EXCEPT !.permissions = permissions], time)

reconstituteActive(props) ==
    [ id |-> props.id,
      name |-> props.name,
      displayName |-> props.displayName,
      description |-> props.description,
      permissions |-> props.permissions,
      tenantId |-> props.tenantId,
      isActive |-> TRUE,
      createdAt |-> props.createdAt,
      updatedAt |-> props.updatedAt ]

\* Role.reconstitute: the given fields, verbatim.
reconstitute(props) ==
    [ id |-> props.id,
      name |-> props.name,
      displayName |-> props.displayName,
      description |-> props.description,
      permissions |-> props.permissions,
      tenantId |-> props.tenantId,
      isActive |-> props.isActive,
      createdAt |-> props.createdAt,
      updatedAt |-> props.updatedAt ]

updateDetailsUntrimmed(r, props, time) ==
    LET named == IF Truthy(props.displayName)
                 THEN [r EXCEPT !.displayName = trim(props.displayName)]
                 ELSE r
        described == IF props.description # Undefined
                     THEN [named EXCEPT !.description = OrElse(props.description, Null)]
                     ELSE named
    IN  touch(described, time)

updateDetailsClearing(r, props, time) ==
    LET named == IF Truthy(props.displayName)
                 THEN [r EXCEPT !.displayName = trim(props.displayName)]
                 ELSE r
    IN  touch([named EXCEPT !.description = OrElse(OptionalTrim(props.description), Null)], time)

\* Role.toPersistence: the plain object with the nine fields.
toPersistence(r) ==
    [ id |-> r.id,
      name |-> r.name,
      displayName |-> r.displayName,
      description |-> r.description,
      permissions |-> r.permissions,
      tenantId |-> r.tenantId,
      isActive |-> r.isActive,
      createdAt |-> r.createdAt,
      updatedAt |-> r.updatedAt ]

\* Role.updateDetails.  A field the caller omits reads as undefined, like
\* one the caller sets to undefined.
updateDetails(r, props, time) ==
    LET named == IF Truthy(props.displayName)
                 THEN [r EXCEPT !.displayName = trim(props.displayName)]
                 ELSE r
        described == IF props.description # Undefined
                     THEN [named EXCEPT !.description =
                                OrElse(OptionalTrim(props.description), Null)]
                     ELSE named
    IN  touch(described, time)

hasAnyPermissionEvery(r, permissions) ==
    \A i \in 1..Len(permissions) : includes(r.permissions, permissions[i])

\* Array.prototype.some / every with the callback `(p) => this.permissions.includes(p)`
hasAnyPermission(r, permissions) ==
    \E i \in 1..Len(permissions) : includes(r.permissions, permissions[i])

hasAllPermissions(r, permissions) ==
    \A i \in 1..Len(permissions) : includes(r.permissions, permissions[i])

activate(r, time) == touch([r EXCEPT !.isActive = TRUE], time)

deactivateClearing(r, time) ==
    touch([r EXCEPT !.isActive = FALSE, !.permissions = <<>>], time)

deactivate(r, time) == touch([r EXCEPT !.isActive = FALSE], time)

Void(op, arg) == [op |-> op, arg |-> arg, ret |-> Undefined]

RoleIdle ==
    /\ role = RoleCreate(<<>>, [name |-> <<>>, displayName |-> <<>>, description |-> Undefined,
                                permissions |-> Undefined, tenantId |-> Undefined], 0)
    /\ now = 0
    /\ lastOp = Void("none", Undefined)

AddPermission(permission) ==
    /\ Len(role.permissions) < MaxPerms \/ includes(role.permissions, permission)
    /\ role' = addPermission(role, permission, now)
    /\ lastOp' = Void("addPermission", permission)
    /\ UNCHANGED now
    /\ UNCHANGED <<constructVars, matchVars, aliasVars, userVars, repoVars>>

RemovePermission(permission) ==
    /\ role' = removePermission(role, permission, now)
    /\ lastOp' = Void("removePermission", permission)
    /\ UNCHANGED now
    /\ UNCHANGED <<constructVars, matchVars, aliasVars, userVars, repoVars>>

SetPermissions(permissions) ==
    /\ role' = setPermissions(role, permissions, now)
    /\ lastOp' = Void("setPermissions", permissions)
    /\ UNCHANGED now
    /\ UNCHANGED <<constructVars, matchVars, aliasVars, userVars, repoVars>>

HasPermission(permission) ==
    /\ lastOp' = [op |-> "hasPermission", arg |-> permission,
                  ret |-> hasPermission(role, permission)]
    /\ UNCHANGED <<role, now>>
    /\ UNCHANGED <<constructVars, matchVars, aliasVars, userVars, repoVars>>

HasAnyPermission(permissions) ==
    /\ lastOp' = [op |-> "hasAnyPermission", arg |-> permissions,
                  ret |-> hasAnyPermission(role, permissions)]
    /\ UNCHANGED <<role, now>>
    /\ UNCHANGED <<constructVars, matchVars, aliasVars, userVars, repoVars>>

HasAllPermissions(permissions) ==
    /\ lastOp' = [op |-> "hasAllPermissions", arg |-> permissions,
                  ret |-> hasAllPermissions(role, permissions)]
    /\ UNCHANGED <<role, now>>
    /\ UNCHANGED <<constructVars, matchVars, aliasVars, userVars, repoVars>>

UpdateDetails(props) ==
    /\ role' = updateDetails(role, props, now)
    /\ lastOp' = Void("updateDetails", props)
    /\ UNCHANGED now
    /\ UNCHANGED <<constructVars, matchVars, aliasVars, userVars, repoVars>>

Activate ==
    /\ role' = activate(role, now)
    /\ lastOp' = Void("activate", Undefined)
    /\ UNCHANGED now
    /\ UNCHANGED <<constructVars, matchVars, aliasVars, userVars, repoVars>>

Deactivate ==
    /\ role' = deactivate(role, now)
    /\ lastOp' = Void("deactivate", Undefined)
    /\ UNCHANGED now
    /\ UNCHANGED <<constructVars, matchVars, aliasVars, userVars, repoVars>>

\* A new Role instance built by Role.reconstitute replaces the one under
\* examination.
Reconstitute(props) ==
    /\ role' = reconstitute(props)
    /\ lastOp' = Void("reconstitute", props)
    /\ UNCHANGED now
    /\ UNCHANGED <<constructVars, matchVars, aliasVars, userVars, repoVars>>

ToPersistence ==
    /\ lastOp' = [op |-> "toPersistence", arg |-> Undefined, ret |-> toPersistence(role)]
    /\ UNCHANGED <<role, now>>
    /\ UNCHANGED <<constructVars, matchVars, aliasVars, userVars, repoVars>>

\* Role.reconstitute of the object the last call, a toPersistence, returned.
ReconstitutePersisted ==
    /\ lastOp.op = "toPersistence"
    /\ Reconstitute(lastOp.ret)

\* Time passes between two calls.
Tick ==
    /\ now < MaxTime
    /\ now' = now + 1
    /\ UNCHANGED <<role, lastOp>>
    /\ UNCHANGED <<constructVars, matchVars, aliasVars, userVars, repoVars>>

-----------------------------------------------------------------------------
(* Arrays as objects: who shares the role's permission array               *)

\* The array objects of the scenario.  `heap` gives the contents of each,
\* `stored` is the one `this.permissions` refers to, and `callerArrays` tells
\* how the caller came to hold each one: "none" (it does not), "new" (it
\* built the array), "create" (it passed the array to Role.create),
\* "setPermissions" (it passed the array to setPermissions) or
\* "getPermissions" (getPermissions returned the array).  In AliasSpec
\* `role.permissions` is the contents of the stored array; the other
\* specifications treat the array as a value and leave the heap idle.
Refs == {"array1", "array2", "array3"}

MaxArray == 2

AliasStrings == {<<"grade", Colon, "manage">>, <<"grade", Colon, "read">>}

AliasLists == SeqsUpTo(AliasStrings, MaxArray)

AliasIdle ==
    /\ heap = [ref \in Refs |-> <<>>]
    /\ stored = "array1"
    /\ callerArrays = [ref \in Refs |-> "none"]

\* An array object nothing refers to.
Free(ref) == ref # stored /\ callerArrays[ref] = "none"

\* The heap once the array objects nothing refers to are collected.
Collect(h, st, tags) ==
    [ref \in Refs |-> IF ref # st /\ tags[ref] = "none" THEN <<>> ELSE h[ref]]

spreadShares(h, ref, fresh) == [ref |-> ref, heap |-> h]

\* `[...array]`: a new array object with the contents of `array`.
spread(h, ref, fresh) == [ref |-> fresh, heap |-> [h EXCEPT ![fresh] = h[ref]]]

\* Role.create({..., permissions}): `props.permissions || []` stores the
\* caller's array object itself, or a new empty one.
AliasCreate(permissions) ==
    /\ stored = "array1"
    /\ heap = [ref \in Refs |-> IF ref = "array1" /\ permissions # Undefined
                                THEN permissions ELSE <<>>]
    /\ callerArrays = [ref \in Refs |-> IF ref = "array1" /\ permissions # Undefined
                                        THEN "create" ELSE "none"]

\* role.setPermissions(array), `array` an array object the caller holds.
AliasSetPermissions(ref) ==
    /\ callerArrays[ref] # "none"
    /\ \E f \in Refs : Free(f)
    /\ LET fresh == CHOOSE f \in Refs : Free(f)
           copy == spread(heap, ref, fresh)
           tags == [callerArrays EXCEPT ![ref] = "setPermissions"]
       IN  /\ stored' = copy.ref
           /\ callerArrays' = tags
           /\ heap' = Collect(copy.heap, copy.ref, tags)
           /\ role' = setPermissions(role, copy.heap[copy.ref], now)
    /\ lastOp' = Void("setPermissions", Str(ref))
    /\ UNCHANGED now
    /\ UNCHANGED <<constructVars, matchVars, userVars, repoVars>>

\* role.getPermissions(); the caller keeps the array returned.
AliasGetPermissions ==
    /\ \E f \in Refs : Free(f)
    /\ LET fresh == CHOOSE f \in Refs : Free(f)
           copy == spread(heap, stored, fresh)
       IN  /\ heap' = copy.heap
           /\ callerArrays' = [callerArrays EXCEPT ![copy.ref] = "getPermissions"]
           /\ lastOp' = [op |-> "getPermissions", arg |-> Undefined, ret |-> Str(copy.ref)]
    /\ UNCHANGED <<stored, role, now>>
    /\ UNCHANGED <<constructVars, matchVars, userVars, repoVars>>

\* The caller builds an array of its own.
CallerNew(array) ==
    /\ \E f \in Refs : Free(f)
    /\ LET fresh == CHOOSE f \in Refs : Free(f)
       IN  /\ heap' = [heap EXCEPT ![fresh] = array]
           /\ callerArrays' = [callerArrays EXCEPT ![fresh] = "new"]
    /\ UNCHANGED <<stored, role, now, lastOp>>
    /\ UNCHANGED <<constructVars, matchVars, userVars, repoVars>>

\* The caller pushes onto an array it holds.
CallerPush(ref, x) ==
    /\ callerArrays[ref] # "none"
    /\ Len(heap[ref]) < MaxArray
    /\ heap' = [heap EXCEPT ![ref] = push(@, x)]
    /\ role' = [role EXCEPT !.permissions = heap'[stored]]
    /\ UNCHANGED <<stored, callerArrays, now, lastOp>>
    /\ UNCHANGED <<constructVars, matchVars, userVars, repoVars>>

\* The caller removes an element of an array it holds.
CallerSplice(ref, index) ==
    /\ callerArrays[ref] # "none"
    /\ index \in 1..Len(heap[ref])
    /\ heap' = [heap EXCEPT ![ref] = splice(@, index)]
    /\ role' = [role EXCEPT !.permissions = heap'[stored]]
    /\ UNCHANGED <<stored, callerArrays, now, lastOp>>
    /\ UNCHANGED <<constructVars, matchVars, userVars, repoVars>>

\* The caller lets go of an array it holds.
CallerDrop(ref) ==
    /\ callerArrays[ref] # "none"
    /\ callerArrays' = [callerArrays EXCEPT ![ref] = "none"]
    /\ heap' = Collect(heap, stored, callerArrays')
    /\ UNCHANGED <<stored, role, now, lastOp>>
    /\ UNCHANGED <<constructVars, matchVars, userVars, repoVars>>

\* Role.reconstitute({..., permissions}) stores the caller's array object
\* itself (`props.permissions` goes to the constructor as it is).
AliasReconstitute(permissions) ==
    /\ stored = "array1"
    /\ heap = [ref \in Refs |-> IF ref = "array1" THEN permissions ELSE <<>>]
    /\ callerArrays = [ref \in Refs |-> IF ref = "array1" THEN "reconstitute" ELSE "none"]

\* role.toPersistence(): the object returned carries `this.permissions`, the
\* stored array object itself; the caller keeps it ("toPersistence").
AliasToPersistence ==
    /\ callerArrays' = [callerArrays EXCEPT ![stored] = "toPersistence"]
    /\ lastOp' = [op |-> "toPersistence", arg |-> Undefined, ret |-> Str(stored)]
    /\ UNCHANGED <<heap, stored, role, now>>
    /\ UNCHANGED <<constructVars, matchVars, userVars, repoVars>>

\* The caller builds another Role by Role.reconstitute from an object that
\* toPersistence returned: the other Role stores that array ("otherRole").
OtherReconstitute(ref) ==
    /\ callerArrays[ref] = "toPersistence"
    /\ callerArrays' = [callerArrays EXCEPT ![ref] = "otherRole"]
    /\ UNCHANGED <<heap, stored, role, now, lastOp>>
    /\ UNCHANGED <<constructVars, matchVars, userVars, repoVars>>

\* other.addPermission(x) on the other Role, which pushes onto the array it
\* stores.
OtherAddPermission(ref, x) ==
    /\ callerArrays[ref] = "otherRole"
    /\ Len(heap[ref]) < MaxArray
    /\ ~includes(heap[ref], x)
    /\ heap' = [heap EXCEPT ![ref] = push(@, x)]
    /\ role' = [role EXCEPT !.permissions = heap'[stored]]
    /\ UNCHANGED <<stored, callerArrays, now, lastOp>>
    /\ UNCHANGED <<constructVars, matchVars, userVars, repoVars>>

-----------------------------------------------------------------------------
(* User: the e-mail verification token and the password reset token        *)

\* The fields of User that the two tokens touch; the name, phone, avatar,
\* tenant, login and deletion fields are left out.  The clock counts hours.

\* A `Date | null` field that is null.
NoDate == -1

\* `const expiresIn = 1000 * 60 * 60`: one hour.
expiresIn == 1

\* The values crypto.randomUUID() can return for a token.
Uuids == {Str("uuid-a"), Str("uuid-b")}

\* The strings a caller presents as a token.
TokenStrings == Uuids \cup {<<>>, Str("guess")}

Emails == {Str("a@school.id"), Str("b@school.id")}

PasswordHashes == {Str("hash-1"), Str("hash-2")}

\* JavaScript truthiness of a `string | null` value.
TruthyOrNull(s) == s # Null /\ s # <<>>

\* User.create at time `time`, with `token` the value of crypto.randomUUID().
UserCreate(email, passwordHash, token, time) ==
    [ email |-> email,
      passwordHash |-> passwordHash,
      isEmailVerified |-> FALSE,
      emailVerifiedAt |-> NoDate,
      emailVerificationToken |-> token,
      passwordResetToken |-> Null,
      passwordResetExpires |-> NoDate,
      createdAt |-> time,
      updatedAt |-> time ]

changeEmail(u, newEmail, token, time) ==
    [u EXCEPT !.email = newEmail,
              !.isEmailVerified = FALSE,
              !.emailVerificationToken = token,
              !.emailVerifiedAt = NoDate,
              !.updatedAt = time]

changePassword(u, newPasswordHash, time) ==
    [u EXCEPT !.passwordHash = newPasswordHash,
              !.passwordResetToken = Null,
              !.passwordResetExpires = NoDate,
              !.updatedAt = time]

verifyEmailKeepingToken(u, token, time) ==
    IF u.emailVerificationToken # token
    THEN [user |-> u, ret |-> FALSE]
    ELSE [user |-> [u EXCEPT !.isEmailVerified = TRUE,
                             !.emailVerifiedAt = time,
                             !.updatedAt = time],
          ret |-> TRUE]

\* User.verifyEmail: the user afterwards and the value returned.
verifyEmail(u, token, time) ==
    IF u.emailVerificationToken # token
    THEN [user |-> u, ret |-> FALSE]
    ELSE [user |-> [u EXCEPT !.isEmailVerified = TRUE,
                             !.emailVerifiedAt = time,
                             !.emailVerificationToken = Null,
                             !.updatedAt = time],
          ret |-> TRUE]

\* User.generatePasswordResetToken, with `token` the value of
\* crypto.randomUUID(); it returns `token`.
generatePasswordResetToken(u, token, time) ==
    [u EXCEPT !.passwordResetToken = token,
              !.passwordResetExpires = time + expiresIn,
              !.updatedAt = time]

verifyPasswordResetTokenStrictExpiry(u, token, time) ==
    IF ~TruthyOrNull(u.passwordResetToken) \/ u.passwordResetExpires = NoDate THEN FALSE
    ELSE IF u.passwordResetToken # token THEN FALSE
    ELSE IF u.passwordResetExpires <= time THEN FALSE
    ELSE TRUE

verifyPasswordResetToken(u, token, time) ==
    IF ~TruthyOrNull(u.passwordResetToken) \/ u.passwordResetExpires = NoDate THEN FALSE
    ELSE IF u.passwordResetToken # token THEN FALSE
    ELSE IF u.passwordResetExpires < time THEN FALSE
    ELSE TRUE

UserIdle ==
    /\ user = UserCreate(<<>>, <<>>, <<>>, 0)
    /\ userOp = [op |-> "none", arg |-> Undefined, ret |-> Undefined]

ChangeEmail(newEmail, token) ==
    /\ user' = changeEmail(user, newEmail, token, now)
    /\ userOp' = [op |-> "changeEmail", arg |-> newEmail, ret |-> Undefined]
    /\ UNCHANGED <<constructVars, matchVars, roleVars, aliasVars, repoVars>>

ChangePassword(newPasswordHash) ==
    /\ user' = changePassword(user, newPasswordHash, now)
    /\ userOp' = [op |-> "changePassword", arg |-> newPasswordHash, ret |-> Undefined]
    /\ UNCHANGED <<constructVars, matchVars, roleVars, aliasVars, repoVars>>

VerifyEmail(token) ==
    /\ user' = verifyEmail(user, token, now).user
    /\ userOp' = [op |-> "verifyEmail", arg |-> token, ret |-> verifyEmail(user, token, now).ret]
    /\ UNCHANGED <<constructVars, matchVars, roleVars, aliasVars, repoVars>>

GeneratePasswordResetToken(token) ==
    /\ user' = generatePasswordResetToken(user, token, now)
    /\ userOp' = [op |-> "generatePasswordResetToken", arg |-> Undefined, ret |-> token]
    /\ UNCHANGED <<constructVars, matchVars, roleVars, aliasVars, repoVars>>

VerifyPasswordResetToken(token) ==
    /\ userOp' = [op |-> "verifyPasswordResetToken", arg |-> token,
                  ret |-> verifyPasswordResetToken(user, token, now)]
    /\ UNCHANGED user
    /\ UNCHANGED <<constructVars, matchVars, roleVars, aliasVars, repoVars>>

\* An hour passes between two calls on the user.
UserTick ==
    /\ now < MaxTime
    /\ now' = now + 1
    /\ UNCHANGED <<role, lastOp, user, userOp>>
    /\ UNCHANGED <<constructVars, matchVars, aliasVars, repoVars>>

-----------------------------------------------------------------------------
(* The roles table and the use cases that read and write it                *)

RepoIdle ==
    /\ table = {}
    /\ execs = <<>>

\* The executions of a use case that one run starts.
MaxExecs == 2

\* crypto.randomUUID() of the n-th execution: a value no other call returns.
randomUUID(n) == <<ToString(n)>>

\* `.limit(1)` of a select without ORDER BY: no row, or any one of the rows
\* that satisfy the condition.
limit1(rows) == IF rows = {} THEN {{}} ELSE {{r} : r \in rows}

\* RoleRepository.findById: the rows the select may return.
findById(rows, id) == limit1({r \in rows : r.id = id})

\* RoleRepository.findByName: the tenant condition is added for a truthy
\* tenantId only.
findByName(rows, name, tenantId) ==
    limit1({r \in rows : /\ r.name = name
                         /\ Truthy(tenantId) => r.tenantId = tenantId})

\* RoleRepository.toDomain
toDomain(row) == reconstitute(row)

\* The roles table: `name: text('name').notNull().unique()`, over all rows
\* whatever their tenant.
nameIsUnique(rows, data) == \A row \in rows : row.name # data.name

saveWithoutUnique(rows, r) ==
    LET data == toPersistence(r)
    IN  IF \E row \in rows : row.id = data.id
        THEN [rows |-> {IF row.id = data.id
                        THEN [row EXCEPT !.displayName = data.displayName,
                                         !.description = data.description,
                                         !.permissions = data.permissions,
                                         !.isActive = data.isActive,
                                         !.updatedAt = data.updatedAt]
                        ELSE row : row \in rows},
              error |-> "none"]
        ELSE [rows |-> rows \cup {data}, error |-> "none"]

\* RoleRepository.save: insert ... on conflict (id) do update.  A row with
\* the same id is updated in five columns; otherwise the row is inserted,
\* and the insert fails when another row has the same name (the roles
\* table declares name unique).
save(rows, r) ==
    LET data == toPersistence(r)
    IN  IF \E row \in rows : row.id = data.id
        THEN [rows |-> {IF row.id = data.id
                        THEN [row EXCEPT !.displayName = data.displayName,
                                         !.description = data.description,
                                         !.permissions = data.permissions,
                                         !.isActive = data.isActive,
                                         !.updatedAt = data.updatedAt]
                        ELSE row : row \in rows},
              error |-> "none"]
        ELSE IF ~nameIsUnique(rows, data)
        THEN [rows |-> rows, error |-> "UniqueViolation"]
        ELSE [rows |-> rows \cup {data}, error |-> "none"]

\* An execution of a use case: its DTO, the await it is suspended at, the
\* role it holds and the exception it ended with.
Execution(dto) == [dto |-> dto, pc |-> "find", role |-> {}, error |-> "none"]

\* A call of CreateRoleUseCase.execute or UpdateRoleUseCase.execute, up to
\* its first await.
Execute(dto) ==
    /\ Len(execs) < MaxExecs
    /\ execs' = Append(execs, Execution(dto))
    /\ UNCHANGED table
    /\ UNCHANGED <<constructVars, matchVars, roleVars, aliasVars, userVars>>

\* CreateRoleUseCase.execute from the answer of findByName to the await of
\* save: DuplicateRoleException when a role was found, Role.create otherwise.
CreateRoleFindByName(i) ==
    /\ execs[i].pc = "find"
    /\ \E result \in findByName(table, execs[i].dto.name, execs[i].dto.tenantId) :
          execs' = [execs EXCEPT ![i] =
             IF result # {}
             THEN [@ EXCEPT !.pc = "failed", !.error = "DuplicateRoleException"]
             ELSE [@ EXCEPT !.pc = "save",
                            !.role = {RoleCreate(randomUUID(i),
                                        [name |-> execs[i].dto.name,
                                         displayName |-> execs[i].dto.displayName,
                                         description |-> execs[i].dto.description,
                                         permissions |-> IF execs[i].dto.permissions = Undefined
                                                         THEN <<>>
                                                         ELSE execs[i].dto.permissions,
                                         tenantId |-> execs[i].dto.tenantId],
                                        now)}]]
    /\ UNCHANGED table
    /\ UNCHANGED <<constructVars, matchVars, roleVars, aliasVars, userVars>>

\* UpdateRoleUseCase.execute from the answer of findById to the await of
\* save: RoleNotFoundException when no role was found, otherwise
\* updateDetails and setPermissions for the fields the DTO gives.
UpdateRoleFindById(i) ==
    /\ execs[i].pc = "find"
    /\ \E result \in findById(table, execs[i].dto.roleId) :
          execs' = [execs EXCEPT ![i] =
             IF result = {}
             THEN [@ EXCEPT !.pc = "failed", !.error = "RoleNotFoundException"]
             ELSE LET dto == execs[i].dto
                      found == toDomain(CHOOSE row \in result : TRUE)
                      detailed == IF dto.displayName # Undefined \/ dto.description # Undefined
                                  THEN updateDetails(found,
                                         [displayName |-> dto.displayName,
                                          description |-> dto.description], now)
                                  ELSE found
                      permitted == IF dto.permissions # Undefined
                                   THEN setPermissions(detailed, dto.permissions, now)
                                   ELSE detailed
                  IN  [@ EXCEPT !.pc = "save", !.role = {permitted}]]
    /\ UNCHANGED table
    /\ UNCHANGED <<constructVars, matchVars, roleVars, aliasVars, userVars>>

\* RoleRepository.save as the database runs it, and the rest of execute.
Save(i) ==
    /\ execs[i].pc = "save"
    /\ LET saved == save(table, CHOOSE r \in execs[i].role : TRUE)
       IN  /\ table' = saved.rows
           /\ execs' = [execs EXCEPT ![i] =
                 IF saved.error = "none"
                 THEN [@ EXCEPT !.pc = "done"]
                 ELSE [@ EXCEPT !.pc = "failed", !.error = saved.error]]
    /\ UNCHANGED <<constructVars, matchVars, roleVars, aliasVars, userVars>>

-----------------------------------------------------------------------------
(* Specifications                                                          *)

ConstructInit ==
    /\ call \in CreateCalls \cup FromComponentsCalls
    /\ perm1 = NotCalled
    /\ str1 = Undefined
    /\ perm2 = NotCalled
    /\ str2 = Undefined
    /\ pcC = "call"
    /\ MatchIdle
    /\ UserIdle
    /\ RepoIdle
    /\ RoleIdle
    /\ AliasIdle

ConstructNext ==
    \/ CreateCall
    \/ FromComponentsCall
    \/ ToStringFirst
    \/ CreateAgain
    \/ ToStringSecond

ConstructSpec == ConstructInit /\ [][ConstructNext]_vars

MatchInit ==
    /\ held \in Permissions
    /\ required \in Permissions
    /\ matched = FALSE
    /\ pcM = "ready"
    /\ ConstructIdle
    /\ UserIdle
    /\ RepoIdle
    /\ RoleIdle
    /\ AliasIdle

MatchNext ==
    \/ Matches
    \/ Implies
    \/ Equals

MatchSpec == MatchInit /\ [][MatchNext]_vars

RoleInit ==
    /\ now = 0
    /\ \E id \in Ids, props \in CreateProps : role = RoleCreate(id, props, now)
    /\ lastOp = Void("create", Undefined)
    /\ ConstructIdle
    /\ MatchIdle
    /\ UserIdle
    /\ RepoIdle
    /\ AliasIdle

RoleNext ==
    \/ \E permission \in StoredStrings : AddPermission(permission)
    \/ \E permission \in StoredStrings : RemovePermission(permission)
    \/ \E permissions \in PermissionLists : SetPermissions(permissions)
    \/ \E permission \in QueryStrings : HasPermission(permission)
    \/ Tick

RoleSpec == RoleInit /\ [][RoleNext]_vars

\* The permission strings, the arrays and the props of the life-cycle
\* scenario, in which every mutator of Role is called.
LifecycleStrings == {<<"grade", Colon, "manage">>, <<"grade", Colon, "read">>}

LifecycleLists == {<<>>, <<<<"grade", Colon, "read">>, <<"grade", Colon, "read">>>>}

LifecycleCreateProps ==
    [ name : {Str("teacher")},
      displayName : {Str("Teacher"), <<Space>>, <<Space, "Teacher", Space>>},
      description : {Undefined, <<Space, "Teacher role">>},
      permissions : {Undefined, <<<<"grade", Colon, "manage">>, <<"grade", Colon, "read">>>>},
      tenantId : {Undefined} ]

\* The props a caller passes to updateDetails; an omitted field is Undefined.
UpdateProps ==
    [ displayName : {Undefined, <<>>, <<Space>>, <<Space, "Senior Teacher", Space>>},
      description : {Undefined, <<>>, <<Space>>, <<Space, "x", Space>>} ]

\* The records a caller passes to Role.reconstitute: any record of the
\* declared type, the two dates in any order.
ReconstituteProps ==
    [ id : {Str("uuid-1")},
      name : {Str("teacher")},
      displayName : {Str("Teacher")},
      description : {Null},
      permissions : {<<<<"grade", Colon, "read">>>>},
      tenantId : {Null},
      isActive : BOOLEAN,
      createdAt : 0..MaxTime,
      updatedAt : 0..MaxTime ]

LifecycleInit ==
    /\ now = 0
    /\ \E id \in Ids, props \in LifecycleCreateProps : role = RoleCreate(id, props, now)
    /\ lastOp = Void("create", Undefined)
    /\ ConstructIdle
    /\ MatchIdle
    /\ UserIdle
    /\ RepoIdle
    /\ AliasIdle

LifecycleNext ==
    \/ \E props \in UpdateProps : UpdateDetails(props)
    \/ \E permission \in LifecycleStrings : AddPermission(permission)
    \/ \E permission \in LifecycleStrings : RemovePermission(permission)
    \/ \E permissions \in LifecycleLists : SetPermissions(permissions)
    \/ Activate
    \/ Deactivate
    \/ \E props \in ReconstituteProps : Reconstitute(props)
    \/ Tick

LifecycleSpec == LifecycleInit /\ [][LifecycleNext]_vars

\* The query scenario: a role as Role.create built it is asked about single
\* permissions and about arrays of permissions.
MaxQuery == 2

QueryLists ==
    SeqsUpTo({<<"grade", Colon, "manage">>, <<"grade", Colon, "read">>,
              <<"GRADE", Colon, "MANAGE">>}, MaxQuery)

QueryInit ==
    /\ now = 0
    /\ \E permissions \in PermissionLists \cup {Undefined} :
          role = RoleCreate(Str("uuid-1"),
                            [name |-> Str("teacher"), displayName |-> Str("Teacher"),
                             description |-> Undefined, permissions |-> permissions,
                             tenantId |-> Undefined], now)
    /\ lastOp = Void("create", Undefined)
    /\ ConstructIdle
    /\ MatchIdle
    /\ UserIdle
    /\ RepoIdle
    /\ AliasIdle

QueryNext ==
    \/ \E permission \in QueryStrings : HasPermission(permission)
    \/ \E permissions \in QueryLists : HasAnyPermission(permissions)
    \/ \E permissions \in QueryLists : HasAllPermissions(permissions)

QuerySpec == QueryInit /\ [][QueryNext]_vars

AliasInit ==
    /\ now = 0
    /\ \E permissions \in AliasLists \cup {Undefined} :
          /\ role = RoleCreate(Str("uuid-1"), [name |-> Str("teacher"),
                                               displayName |-> Str("Teacher"),
                                               description |-> Undefined,
                                               permissions |-> permissions,
                                               tenantId |-> Undefined], now)
          /\ AliasCreate(permissions)
    /\ lastOp = Void("create", Undefined)
    /\ ConstructIdle
    /\ MatchIdle
    /\ UserIdle
    /\ RepoIdle

AliasNext ==
    \/ \E ref \in Refs : AliasSetPermissions(ref)
    \/ AliasGetPermissions
    \/ \E array \in AliasLists : CallerNew(array)
    \/ \E ref \in Refs, x \in AliasStrings : CallerPush(ref, x)
    \/ \E ref \in Refs, index \in 1..MaxArray : CallerSplice(ref, index)
    \/ \E ref \in Refs : CallerDrop(ref)

AliasSpec == AliasInit /\ [][AliasNext]_vars

\* The persistence scenario: the life cycle, with toPersistence and
\* Role.reconstitute of what it returned in between.
PersistInit == LifecycleInit

PersistNext ==
    \/ LifecycleNext
    \/ ToPersistence
    \/ ReconstitutePersisted

PersistSpec == PersistInit /\ [][PersistNext]_vars

\* The sharing scenario: the role is built by Role.create or by
\* Role.reconstitute from an array of the caller, and toPersistence and a
\* second Role join the array scenario.
ShareInit ==
    /\ now = 0
    /\ \/ \E permissions \in AliasLists \cup {Undefined} :
             /\ role = RoleCreate(Str("uuid-1"), [name |-> Str("teacher"),
                                                  displayName |-> Str("Teacher"),
                                                  description |-> Undefined,
                                                  permissions |-> permissions,
                                                  tenantId |-> Undefined], now)
             /\ AliasCreate(permissions)
             /\ lastOp = Void("create", Undefined)
       \/ \E permissions \in AliasLists :
             /\ role = reconstitute([id |-> Str("uuid-1"), name |-> Str("teacher"),
                                     displayName |-> Str("Teacher"), description |-> Null,
                                     permissions |-> permissions, tenantId |-> Null,
                                     isActive |-> TRUE, createdAt |-> 0, updatedAt |-> 0])
             /\ AliasReconstitute(permissions)
             /\ lastOp = Void("reconstitute", Undefined)
    /\ ConstructIdle
    /\ MatchIdle
    /\ UserIdle
    /\ RepoIdle

ShareNext ==
    \/ AliasNext
    \/ AliasToPersistence
    \/ \E ref \in Refs : OtherReconstitute(ref)
    \/ \E ref \in Refs, x \in AliasStrings : OtherAddPermission(ref, x)

ShareSpec == ShareInit /\ [][ShareNext]_vars

UserInit ==
    /\ now = 0
    /\ role = RoleCreate(<<>>, [name |-> <<>>, displayName |-> <<>>, description |-> Undefined,
                                permissions |-> Undefined, tenantId |-> Undefined], 0)
    /\ lastOp = Void("none", Undefined)
    /\ \E token \in Uuids : user = UserCreate(Str("a@school.id"), Str("hash-1"), token, now)
    /\ userOp = [op |-> "create", arg |-> Undefined, ret |-> Undefined]
    /\ ConstructIdle
    /\ MatchIdle
    /\ AliasIdle
    /\ RepoIdle

UserNext ==
    \/ \E newEmail \in Emails, token \in Uuids : ChangeEmail(newEmail, token)
    \/ \E newPasswordHash \in PasswordHashes : ChangePassword(newPasswordHash)
    \/ \E token \in TokenStrings : VerifyEmail(token)
    \/ \E token \in Uuids : GeneratePasswordResetToken(token)
    \/ \E token \in TokenStrings : VerifyPasswordResetToken(token)
    \/ UserTick

UserSpec == UserInit /\ [][UserNext]_vars

-----------------------------------------------------------------------------
(* CreateSpec: concurrent executions of CreateRoleUseCase on an empty      *)
(* roles table.                                                            *)

CreateRoleDTOs ==
    [ name : {Str("teacher"), Str("custom_role")},
      displayName : {<<Space, "Teacher">>},
      description : {Undefined},
      permissions : {Undefined, <<<<"grade", Colon, "read">>>>},
      tenantId : {Undefined, Str("tenant-1"), Str("tenant-2")} ]

CreateInit ==
    /\ RoleIdle
    /\ ConstructIdle
    /\ MatchIdle
    /\ AliasIdle
    /\ UserIdle
    /\ RepoIdle

CreateNext ==
    \/ \E dto \in CreateRoleDTOs : Execute(dto)
    \/ \E i \in 1..Len(execs) : CreateRoleFindByName(i)
    \/ \E i \in 1..Len(execs) : Save(i)

CreateSpec == CreateInit /\ [][CreateNext]_vars

-----------------------------------------------------------------------------
(* UpdateSpec: concurrent executions of UpdateRoleUseCase on a table that  *)
(* holds one role an earlier CreateRoleUseCase execution saved.            *)

UpdateRoleDTOs ==
    [ roleId : {Str("uuid-1"), Str("uuid-9")},
      displayName : {Undefined, <<"Senior Teacher", Space>>},
      description : {Undefined, Str("x")},
      permissions : {Undefined, <<>>, <<<<"grade", Colon, "manage">>>>} ]

UpdateInit ==
    /\ RoleIdle
    /\ ConstructIdle
    /\ MatchIdle
    /\ AliasIdle
    /\ UserIdle
    /\ table = {toPersistence(RoleCreate(Str("uuid-1"),
                   [name |-> Str("teacher"), displayName |-> Str("Teacher"),
                    description |-> Undefined,
                    permissions |-> <<<<"grade", Colon, "read">>>>,
                    tenantId |-> Undefined], 0))}
    /\ execs = <<>>

UpdateNext ==
    \/ \E dto \in UpdateRoleDTOs : Execute(dto)
    \/ \E i \in 1..Len(execs) : UpdateRoleFindById(i)
    \/ \E i \in 1..Len(execs) : Save(i)

UpdateSpec == UpdateInit /\ [][UpdateNext]_vars

-----------------------------------------------------------------------------
(* Properties of Role (RoleSpec)                                           *)

GradeManage == <<"grade", Colon, "manage">>

GradeRead == <<"grade", Colon, "read">>

Count(array, x) == Cardinality({i \in 1..Len(array) : array[i] = x})

NoDuplicates(array) ==
    \A i, j \in 1..Len(array) : array[i] = array[j] => i = j

\* C1: the permission list of a role never holds two equal strings, whatever
\* list Role.create and setPermissions were given.
C1_NoDuplicatePermissions == NoDuplicates(role.permissions)

\* What addPermission itself guarantees: it never turns a list without
\* duplicates into one with duplicates.
AddPermissionAddsNoDuplicate ==
    [][\A p \in StoredStrings :
          (AddPermission(p) /\ NoDuplicates(role.permissions)) =>
              NoDuplicates(role'.permissions)]_vars

\* C2: right after removePermission(p), hasPermission(p) is false and every
\* other permission that was stored is still reported.
C2_RemovedPermissionIsGone ==
    [][\A p \in StoredStrings :
          RemovePermission(p) =>
              /\ ~hasPermission(role', p)
              /\ \A q \in QueryStrings \ {p} :
                    hasPermission(role, q) => hasPermission(role', q)]_vars

\* The statement of C2 restricted to the calls made on a list without
\* duplicates: the only calls on which C2 can fail are those C1 rules out.
RemovedPermissionIsGoneWithoutDuplicates ==
    [][\A p \in StoredStrings :
          (RemovePermission(p) /\ NoDuplicates(role.permissions)) =>
              /\ ~hasPermission(role', p)
              /\ \A q \in QueryStrings \ {p} :
                    hasPermission(role, q) => hasPermission(role', q)]_vars

\* C10: hasPermission(p) is true exactly when some stored string equals p;
\* a role that stores only grade:manage has grade:manage and has not
\* grade:read, although the permission grade:manage matches grade:read.
C10_HasPermissionIsExactMembership ==
    lastOp.op = "hasPermission" =>
        /\ lastOp.ret = (Count(role.permissions, lastOp.arg) > 0)
        /\ role.permissions = <<GradeManage>> =>
              /\ lastOp.arg = GradeManage => lastOp.ret = TRUE
              /\ lastOp.arg = GradeRead => lastOp.ret = FALSE
              /\ matches(create(GradeManage).value, create(GradeRead).value)

C10_Witness ==
    /\ lastOp.op = "hasPermission"
    /\ role.permissions = <<GradeManage>>
    /\ lastOp.arg = GradeRead
    /\ lastOp.ret = FALSE
    /\ create(GradeManage).error = "none"
    /\ create(GradeRead).error = "none"

-----------------------------------------------------------------------------
(* Properties of Permission.matches (MatchSpec)                            *)

Manage == Str("manage")

\* C3: when the required permission carries a scope, a match needs the held
\* permission to have no scope or the same scope, whatever the held action.
C3_ScopedRequirementNeedsScope ==
    (pcM = "matches" /\ Truthy(required.scope) /\ matched) =>
        (~Truthy(held.scope) \/ held.scope = required.scope)

\* The statement of C3 restricted to held permissions whose action is not
\* manage: the manage shortcut is the only way past the scope test.
ScopedRequirementNeedsScopeUnlessManage ==
    (pcM = "matches" /\ Truthy(required.scope) /\ matched /\ held.action # Manage) =>
        (~Truthy(held.scope) \/ held.scope = required.scope)

\* C4: r:manage matches r:a for every resource r and every action a.
C4_ManageMatchesEveryAction ==
    ( /\ pcM = "matches"
      /\ held.action = Manage
      /\ held.scope = Undefined
      /\ required.scope = Undefined
      /\ held.resource = required.resource ) => matched

C4_Witness ==
    /\ pcM = "matches"
    /\ held = Permission(Str("grade"), Manage, Undefined)
    /\ required = Permission(Str("grade"), Str("read"), Undefined)
    /\ matched

\* C5: permissions on different resources never match, whatever their
\* actions and scopes, manage included.
C5_DifferentResourcesNeverMatch ==
    (pcM = "matches" /\ held.resource # required.resource) => ~matched

C5_Witness ==
    /\ pcM = "matches"
    /\ held = Permission(Str("grade"), Manage, Undefined)
    /\ required = Permission(Str("user"), Str("read"), Undefined)
    /\ ~matched

\* C6: with the same resource and the same action other than manage, an
\* unscoped held permission matches whatever scope is required, and a scoped
\* held permission matches the unscoped requirement.
C6_ScopeAbsenceMatches ==
    ( /\ pcM = "matches"
      /\ held.resource = required.resource
      /\ held.action = required.action
      /\ held.action # Manage ) =>
        /\ held.scope = Undefined => matched
        /\ (held.scope # Undefined /\ required.scope = Undefined) => matched

C6_Witness ==
    /\ pcM = "matches"
    /\ held = Permission(Str("grade"), Str("update"), Str("class_123"))
    /\ required = Permission(Str("grade"), Str("update"), Undefined)
    /\ matched

-----------------------------------------------------------------------------
(* Properties of Permission construction (ConstructSpec)                   *)

ColonPositions(s) == {i \in 1..Len(s) : s[i] = Colon}

PartCount(s) == Cardinality(ColonPositions(s)) + 1

\* Position of the k-th colon of s; 0 before the first part, Len(s) + 1
\* after the last.
Boundary(s, k) ==
    IF k = 0 THEN 0
    ELSE IF k > Cardinality(ColonPositions(s)) THEN Len(s) + 1
    ELSE CHOOSE i \in ColonPositions(s) :
            Cardinality({j \in ColonPositions(s) : j < i}) = k - 1

\* The k-th colon-separated part of s.
Part(s, k) == SubSeq(s, Boundary(s, k - 1) + 1, Boundary(s, k) - 1)

\* C7: Permission.create fails with the format error iff the string has
\* fewer than 2 or more than 3 parts; otherwise with the resource error iff
\* part 1 is no resource; otherwise with the action error iff part 2 is no
\* action; otherwise it succeeds with the parts taken as they are.
C7_CreateClassifiesInOrder ==
    (call.fn = "create" /\ pcC # "call") =>
        LET s == call.str
            n == PartCount(s)
            wellFormed == n = 2 \/ n = 3
            resourceOk == Part(s, 1) \in validResources
            actionOk == Part(s, 2) \in validActions
        IN  /\ perm1.error = "InvalidFormat" <=> ~wellFormed
            /\ perm1.error = "InvalidResource" <=> (wellFormed /\ ~resourceOk)
            /\ perm1.error = "InvalidAction" <=> (wellFormed /\ resourceOk /\ ~actionOk)
            /\ perm1.error = "none" <=> (wellFormed /\ resourceOk /\ actionOk)
            /\ perm1.error = "none" =>
                  perm1.value = Permission(Part(s, 1), Part(s, 2),
                                           IF n = 3 THEN Part(s, 3) ELSE Undefined)

C7_Witness ==
    /\ call.fn = "create"
    /\ call.str = <<"x", Colon, "x">>
    /\ perm1.error = "InvalidResource"

\* C8: every constructed Permission, by create or by fromComponents, has its
\* resource and its action in the enumerations.
C8_ConstructedPermissionsAreEnumerated ==
    perm1.error = "none" =>
        /\ perm1.value.resource \in validResources
        /\ perm1.value.action \in validActions

\* The statement of C8 restricted to Permission.create, the constructor
\* that validates.
CreatedPermissionsAreEnumerated ==
    (call.fn = "create" /\ perm1.error = "none") =>
        /\ perm1.value.resource \in validResources
        /\ perm1.value.action \in validActions

\* C9: create("resource:action") succeeds and prints as its input, for every
\* resource and action; and printing, creating and printing again gives the
\* first printed string, for every string create accepts.
C9_ToStringRoundTrips ==
    (call.fn = "create" /\ pcC # "call") =>
        /\ call.str \in ResourceActionStrings =>
              /\ perm1.error = "none"
              /\ pcC \notin {"constructed"} => str1 = call.str
        /\ pcC # "rethrown"
        /\ pcC = "done" => str2 = str1

C9_Witness ==
    /\ call.fn = "create"
    /\ pcC = "done"
    /\ call.str = <<"grade", Colon, "read", Colon, "x">>
    /\ str1 = call.str
    /\ str2 = str1

-----------------------------------------------------------------------------
(* Properties of the array queries (QuerySpec)                             *)

\* C11: hasAnyPermission(L) returns true exactly when some element of L
\* satisfies hasPermission, hasAllPermissions(L) exactly when every element
\* of L does, so hasAnyPermission([]) is false and hasAllPermissions([]) is
\* true whatever the role stores; and neither query changes the role.
C11_AnyAndAllFollowHasPermission ==
    [][LET L == lastOp'.arg
       IN  /\ (lastOp'.op = "hasAnyPermission" /\ HasAnyPermission(L)) =>
                 /\ lastOp'.ret = (\E i \in 1..Len(L) : hasPermission(role, L[i]))
                 /\ L = <<>> => lastOp'.ret = FALSE
                 /\ role' = role
           /\ (lastOp'.op = "hasAllPermissions" /\ HasAllPermissions(L)) =>
                 /\ lastOp'.ret = (\A i \in 1..Len(L) : hasPermission(role, L[i]))
                 /\ L = <<>> => lastOp'.ret = TRUE
                 /\ role' = role]_vars

C11_Witness ==
    /\ lastOp.op = "hasAnyPermission"
    /\ lastOp.arg = <<>>
    /\ lastOp.ret = FALSE
    /\ role.permissions = <<GradeManage, GradeRead>>

-----------------------------------------------------------------------------
(* Properties of addPermission and removePermission (RoleSpec)             *)

\* A step that is the call of a method with the argument recorded in lastOp.
AddPermissionStep == lastOp'.op = "addPermission" /\ AddPermission(lastOp'.arg)

RemovePermissionStep == lastOp'.op = "removePermission" /\ RemovePermission(lastOp'.arg)

SetPermissionsStep == lastOp'.op = "setPermissions" /\ SetPermissions(lastOp'.arg)

UpdateDetailsStep == lastOp'.op = "updateDetails" /\ UpdateDetails(lastOp'.arg)

ReconstituteStep == lastOp'.op = "reconstitute" /\ Reconstitute(lastOp'.arg)

\* C12: addPermission(x) on a role that stores x leaves the permission list
\* as it was (content, order and length); on a role without x the list grows
\* by one, x is its last entry and the earlier entries keep their places.
C12_AddPermissionIsIdempotent ==
    [][AddPermissionStep =>
          LET x == lastOp'.arg
          IN  IF hasPermission(role, x)
              THEN role'.permissions = role.permissions
              ELSE /\ Len(role'.permissions) = Len(role.permissions) + 1
                   /\ role'.permissions[Len(role'.permissions)] = x
                   /\ SubSeq(role'.permissions, 1, Len(role.permissions)) = role.permissions]_vars

C12_Witness ==
    /\ lastOp.op = "addPermission"
    /\ lastOp.arg = GradeRead
    /\ role.permissions = <<GradeRead, GradeManage>>

\* C13: removePermission(x) on a role that does not store x leaves the
\* permission list as it was; on a role that stores x the list loses its
\* first x and nothing else, the other entries keeping their relative order.
C13_RemovePermissionRemovesFirst ==
    [][RemovePermissionStep =>
          LET x == lastOp'.arg
          IN  IF ~hasPermission(role, x)
              THEN role'.permissions = role.permissions
              ELSE \E i \in 1..Len(role.permissions) :
                      /\ role.permissions[i] = x
                      /\ \A j \in 1..(i - 1) : role.permissions[j] # x
                      /\ role'.permissions =
                            SubSeq(role.permissions, 1, i - 1) \o
                            SubSeq(role.permissions, i + 1, Len(role.permissions))]_vars

C13_Witness ==
    /\ lastOp.op = "removePermission"
    /\ lastOp.arg = GradeRead
    /\ role.permissions = <<GradeManage, GradeRead>>

-----------------------------------------------------------------------------
(* Properties of the life cycle of a Role (LifecycleSpec)                  *)

\* C15: every call of a mutator (updateDetails, addPermission,
\* removePermission, setPermissions, activate, deactivate) leaves updatedAt
\* equal to the time of the call, whatever the argument and the role.
C15_EveryMutatorAdvancesUpdatedAt ==
    [][( \/ UpdateDetailsStep
         \/ AddPermissionStep
         \/ RemovePermissionStep
         \/ SetPermissionsStep
         \/ Activate
         \/ Deactivate ) => role'.updatedAt = now]_vars

\* C15 as the code has it: updateDetails, setPermissions, activate and
\* deactivate always leave updatedAt equal to the time of the call;
\* addPermission does so exactly when the permission was not stored,
\* removePermission exactly when it was; the two no-op calls leave
\* updatedAt as it was.
C15_MutatorsThatChangeAdvanceUpdatedAt ==
    [][/\ UpdateDetailsStep => role'.updatedAt = now
       /\ SetPermissionsStep => role'.updatedAt = now
       /\ Activate => role'.updatedAt = now
       /\ Deactivate => role'.updatedAt = now
       /\ AddPermissionStep =>
             role'.updatedAt = IF hasPermission(role, lastOp'.arg) THEN role.updatedAt ELSE now
       /\ RemovePermissionStep =>
             role'.updatedAt = IF hasPermission(role, lastOp'.arg) THEN now ELSE role.updatedAt]_vars

C15_Witness ==
    /\ lastOp.op = "addPermission"
    /\ lastOp.arg = GradeManage
    /\ role.permissions = <<GradeManage, GradeRead>>
    /\ role.updatedAt = 0
    /\ now = 1

\* A call of one of the six mutators.
MutatorCall ==
    \/ UpdateDetailsStep
    \/ AddPermissionStep
    \/ RemovePermissionStep
    \/ SetPermissionsStep
    \/ Activate
    \/ Deactivate

\* C16: updatedAt is never earlier than createdAt: right after Role.create,
\* right after Role.reconstitute and after any sequence of mutators, the
\* clock never going back.
C16_UpdatedAtNotBeforeCreatedAt == role.updatedAt >= role.createdAt

\* C16 as the code has it: updatedAt is not earlier than createdAt right
\* after Role.create; right after Role.reconstitute it is so exactly when
\* it is so in the record given; and a mutator called when the clock is not
\* earlier than createdAt keeps it so.
C16_UpdatedAtNotBeforeCreatedAtOfValidRecords ==
    /\ role.updatedAt >= role.createdAt
    /\ [][/\ ReconstituteStep =>
                LET props == lastOp'.arg
                IN  /\ role'.createdAt = props.createdAt
                    /\ role'.updatedAt = props.updatedAt
                    /\ (role'.updatedAt >= role'.createdAt) <=> (props.updatedAt >= props.createdAt)
          /\ (MutatorCall /\ role.updatedAt >= role.createdAt /\ role.createdAt <= now) =>
                role'.updatedAt >= role'.createdAt]_vars

C16_Witness ==
    /\ lastOp.op = "activate"
    /\ role.createdAt = 1
    /\ role.updatedAt = 2

\* C17: updateDetails changes only the fields it is given: a call without
\* displayName leaves displayName as it was, a call without description
\* leaves description as it was, no call changes id, name, tenantId,
\* permissions, isActive or createdAt, and every call, updateDetails({})
\* included, leaves updatedAt equal to the time of the call.
C17_UpdateDetailsChangesOnlyGivenFields ==
    [][UpdateDetailsStep =>
          LET props == lastOp'.arg
          IN  /\ props.displayName = Undefined => role'.displayName = role.displayName
              /\ props.description = Undefined => role'.description = role.description
              /\ role'.id = role.id
              /\ role'.name = role.name
              /\ role'.tenantId = role.tenantId
              /\ role'.permissions = role.permissions
              /\ role'.isActive = role.isActive
              /\ role'.createdAt = role.createdAt
              /\ role'.updatedAt = now]_vars

C17_Witness ==
    /\ lastOp.op = "updateDetails"
    /\ lastOp.arg = [displayName |-> Undefined, description |-> Undefined]
    /\ role.description = Str("x")
    /\ role.createdAt = 0
    /\ role.updatedAt = 1

\* C18: Role.create and updateDetails called with a non-empty displayName
\* leave a displayName that is non-empty and has no surrounding whitespace,
\* so a role built and updated by such calls (an updateDetails without
\* displayName, or with the empty one, changing nothing) never has an empty
\* displayName.
C18_DisplayNameNeverEmpty ==
    /\ role.displayName # <<>>
    /\ Head(role.displayName) # Space
    /\ role.displayName[Len(role.displayName)] # Space

\* The part of C18 that holds: the displayName has no surrounding
\* whitespace.
DisplayNameIsTrimmed == trim(role.displayName) = role.displayName

\* C19: updateDetails with the empty description, or with description
\* undefined, leaves the description null; with any other description it
\* leaves the trimmed description, or null when that is empty.
C19_UndefinedDescriptionClears ==
    [][UpdateDetailsStep =>
          LET props == lastOp'.arg
          IN  role'.description =
                  IF props.description \in {<<>>, Undefined} THEN Null
                  ELSE IF trim(props.description) = <<>> THEN Null
                  ELSE trim(props.description)]_vars

\* C19 as the code has it: the empty description and one of whitespace only
\* leave the description null, any other string leaves it trimmed, and
\* description undefined leaves the description as it was.
C19_UndefinedDescriptionIsKept ==
    [][UpdateDetailsStep =>
          LET props == lastOp'.arg
          IN  role'.description =
                  IF props.description = Undefined THEN role.description
                  ELSE IF trim(props.description) = <<>> THEN Null
                  ELSE trim(props.description)]_vars

C19_Witness ==
    /\ lastOp.op = "updateDetails"
    /\ lastOp.arg = [displayName |-> <<Space, "Senior Teacher", Space>>, description |-> Undefined]
    /\ role.displayName = Str("Senior Teacher")
    /\ role.description = Str("x")

\* C20: activate and deactivate change only isActive (to true, to false)
\* and updatedAt; the permission list is as it was, and hasPermission,
\* hasAnyPermission and hasAllPermissions answer after the call as they
\* answered before it, on an inactive role as on an active one.
C20_ActivationKeepsPermissions ==
    [][/\ Activate => role' = [role EXCEPT !.isActive = TRUE, !.updatedAt = now]
       /\ Deactivate => role' = [role EXCEPT !.isActive = FALSE, !.updatedAt = now]
       /\ (Activate \/ Deactivate) =>
             /\ role'.permissions = role.permissions
             /\ \A x \in QueryStrings : hasPermission(role', x) = hasPermission(role, x)
             /\ \A L \in QueryLists :
                   /\ hasAnyPermission(role', L) = hasAnyPermission(role, L)
                   /\ hasAllPermissions(role', L) = hasAllPermissions(role, L)]_vars

C20_Witness ==
    /\ lastOp.op = "deactivate"
    /\ ~role.isActive
    /\ role.permissions = <<GradeManage, GradeRead>>
    /\ hasPermission(role, GradeRead)
    /\ hasAllPermissions(role, <<GradeManage, GradeRead>>)

-----------------------------------------------------------------------------
(* Properties of the permission arrays (AliasSpec)                         *)

\* The arrays the caller passed to setPermissions or got from
\* getPermissions.
Exchanged == {ref \in Refs : callerArrays[ref] \in {"setPermissions", "getPermissions"}}

\* C14: after setPermissions(list) the role stores, and getPermissions()
\* returns, exactly the elements of list in their order and nothing of the
\* previous permissions; and when the caller afterwards changes the array
\* it passed to setPermissions, or an array getPermissions returned, the
\* role's stored permissions stay as they were.
C14_SetAndGetPermissionsCopy ==
    [][/\ role'.permissions = heap'[stored']
       /\ \A ref \in Refs :
             AliasSetPermissions(ref) => role'.permissions = heap[ref]
       /\ AliasGetPermissions =>
             /\ heap'[lastOp'.ret[1]] = role.permissions
             /\ role'.permissions = role.permissions
       /\ \A ref \in Exchanged :
             ( \/ \E x \in AliasStrings : CallerPush(ref, x)
               \/ \E index \in 1..MaxArray : CallerSplice(ref, index) ) =>
                 role'.permissions = role.permissions]_vars

C14_Witness ==
    /\ lastOp.op = "setPermissions"
    /\ callerArrays[lastOp.arg[1]] = "setPermissions"
    /\ role.permissions = <<GradeRead>>
    /\ heap[lastOp.arg[1]] = <<GradeRead, GradeManage>>

-----------------------------------------------------------------------------
(* Properties of equals and of implies as a relation (MatchSpec)           *)

\* C22: a.equals(b) is true exactly when resource, action and scope are all
\* identical, an absent scope being different from every present one: an
\* unscoped permission never equals a scoped one with the same resource and
\* action.
C22_EqualsIsStructural ==
    pcM = "equals" =>
        /\ matched <=> held = required
        /\ (held.scope = Undefined /\ required.scope # Undefined) => ~matched
        /\ (held.scope # Undefined /\ required.scope = Undefined) => ~matched

C22_Witness ==
    /\ pcM = "equals"
    /\ held = Permission(Str("grade"), Str("read"), Undefined)
    /\ required = Permission(Str("grade"), Str("read"), <<>>)
    /\ ~matched

\* C29: for any two permissions a and b that Permission.create accepts,
\* a.equals(b) holds exactly when a.toString() and b.toString() are the same
\* string.
C29_ToStringIdentifiesPermission ==
    pcM = "equals" => (matched <=> toString(held) = toString(required))

\* The statement of C29 for permissions whose scope is not the empty
\* string.
ToStringIdentifiesPermissionWithoutEmptyScope ==
    (pcM = "equals" /\ held.scope # <<>> /\ required.scope # <<>>) =>
        (matched <=> toString(held) = toString(required))

\* C30: implies is a preorder: a.implies(a) for every a, a.equals(b)
\* entails a.implies(b), and a.implies(b) with b.implies(c) entails
\* a.implies(c), for all permissions.
C30_ImpliesIsPreorder ==
    pcM = "implies" =>
        /\ held = required => matched
        /\ equals(held, required) => matched
        /\ matched => \A c \in Permissions :
                          implies(required, c) => implies(held, c)

\* C30 as the code has it: implies is reflexive and follows from equals;
\* a.implies(b) with b.implies(c) entails a.implies(c) whenever a has no
\* scope, or b has one, or c has none, or a and c have the same scope, or
\* the action of a is manage.  A scoped a, an unscoped b and a c with
\* another scope is the one shape that breaks the chain.
C30_ImpliesIsReflexiveAndChainsThroughScopedMiddle ==
    pcM = "implies" =>
        /\ held = required => matched
        /\ equals(held, required) => matched
        /\ matched => \A c \in Permissions :
                          ( /\ implies(required, c)
                            /\ \/ ~Truthy(held.scope)
                               \/ Truthy(required.scope)
                               \/ ~Truthy(c.scope)
                               \/ held.scope = c.scope
                               \/ held.action = Manage ) => implies(held, c)
        /\ ( /\ Truthy(held.scope)
             /\ ~Truthy(required.scope)
             /\ held.action # Manage
             /\ matched ) =>
               \E c \in Permissions : implies(required, c) /\ ~implies(held, c)

C30_Witness ==
    /\ pcM = "implies"
    /\ matched
    /\ held = Permission(Str("grade"), Str("read"), Str("class_123"))
    /\ required = Permission(Str("grade"), Str("read"), Undefined)

-----------------------------------------------------------------------------
(* Properties of toPersistence and reconstitute (PersistSpec)              *)

\* C21: Role.reconstitute(role.toPersistence()) is a role equal to the
\* original in every field, the permissions in the same order; and
\* reconstitute copies the fields it is given verbatim, whatever they are,
\* the two dates included.
C21_ReconstituteRoundTrips ==
    [][/\ ReconstitutePersisted =>
             /\ lastOp.ret = toPersistence(role)
             /\ role'.id = role.id
             /\ role'.name = role.name
             /\ role'.displayName = role.displayName
             /\ role'.description = role.description
             /\ role'.permissions = role.permissions
             /\ role'.tenantId = role.tenantId
             /\ role'.isActive = role.isActive
             /\ role'.createdAt = role.createdAt
             /\ role'.updatedAt = role.updatedAt
       /\ ReconstituteStep =>
             LET props == lastOp'.arg
             IN  /\ role'.id = props.id
                 /\ role'.name = props.name
                 /\ role'.displayName = props.displayName
                 /\ role'.description = props.description
                 /\ role'.permissions = props.permissions
                 /\ role'.tenantId = props.tenantId
                 /\ role'.isActive = props.isActive
                 /\ role'.createdAt = props.createdAt
                 /\ role'.updatedAt = props.updatedAt]_vars

C21_Witness ==
    /\ lastOp.op = "reconstitute"
    /\ lastOp.arg = toPersistence(role)
    /\ ~role.isActive
    /\ role.permissions = <<GradeManage, GradeRead>>
    /\ role.createdAt = 0
    /\ role.updatedAt = 1
    /\ now = 2

-----------------------------------------------------------------------------
(* Properties of the sharing of the permission array (ShareSpec)           *)

\* The arrays the caller passed to Role.create or Role.reconstitute, got
\* from toPersistence, or handed to another Role.
Handed ==
    {ref \in Refs : callerArrays[ref] \in {"create", "reconstitute", "toPersistence", "otherRole"}}

\* C27: what the role stores changes only through its own addPermission,
\* removePermission and setPermissions: a change the caller makes to the
\* array it passed to Role.create or Role.reconstitute, or to the array that
\* toPersistence returned, or that another Role built from it makes by its
\* addPermission, leaves the role's permissions, and so the answers of
\* getPermissions and hasPermission, as they were.
C27_OnlyOwnMutatorsChangePermissions ==
    [][\A ref \in Handed :
          ( \/ \E x \in AliasStrings : CallerPush(ref, x)
            \/ \E index \in 1..MaxArray : CallerSplice(ref, index)
            \/ \E x \in AliasStrings : OtherAddPermission(ref, x) ) =>
                /\ role'.permissions = role.permissions
                /\ \A x \in AliasStrings : hasPermission(role', x) = hasPermission(role, x)]_vars

-----------------------------------------------------------------------------
(* Properties of the tokens of User (UserSpec)                             *)

\* A step that is the call of a method with the argument recorded in userOp.
VerifyEmailStep == userOp'.op = "verifyEmail" /\ VerifyEmail(userOp'.arg)

ChangeEmailStep ==
    userOp'.op = "changeEmail" /\ ChangeEmail(userOp'.arg, user'.emailVerificationToken)

VerifyPasswordResetTokenStep ==
    userOp'.op = "verifyPasswordResetToken" /\ VerifyPasswordResetToken(userOp'.arg)

ChangePasswordStep == userOp'.op = "changePassword" /\ ChangePassword(userOp'.arg)

\* C25: verifyEmail(t) returns true, and marks the email verified, exactly
\* when t is the user's current verification token; on another token it
\* returns false and changes nothing; a successful call clears the token,
\* and while the token is cleared every verifyEmail returns false; only
\* changeEmail sets a token again, and it resets isEmailVerified to false
\* and emailVerifiedAt to null.
C25_VerifyEmailConsumesToken ==
    [][/\ VerifyEmailStep =>
             LET t == userOp'.arg
             IN  /\ userOp'.ret = (t = user.emailVerificationToken)
                 /\ userOp'.ret =>
                       /\ user'.isEmailVerified
                       /\ user'.emailVerifiedAt = now
                       /\ user'.emailVerificationToken = Null
                 /\ ~userOp'.ret => user' = user
                 /\ user.emailVerificationToken = Null => ~userOp'.ret
       /\ ChangeEmailStep =>
             /\ user'.emailVerificationToken \in Uuids
             /\ ~user'.isEmailVerified
             /\ user'.emailVerifiedAt = NoDate
       /\ (user.emailVerificationToken = Null /\ user'.emailVerificationToken # Null) =>
             ChangeEmailStep]_vars

C25_Witness ==
    /\ userOp.op = "verifyEmail"
    /\ userOp.arg \in Uuids
    /\ userOp.ret = FALSE
    /\ user.isEmailVerified
    /\ user.emailVerificationToken = Null

-----------------------------------------------------------------------------
(* Properties of the use cases and the roles table (CreateSpec, UpdateSpec) *)

\* The step in which execution i gets the answer of its find query.
FindStep(i) == execs[i].pc = "find" /\ execs'[i].pc # "find"

\* The step in which execution i gets the answer of its save.
SaveStep(i) == execs[i].pc = "save" /\ execs'[i].pc # "save"

\* C23: after any interleaving of CreateRoleUseCase executions the roles
\* table never holds two rows with the same name and the same tenantId.
C23_NamesUniqueWithinTenant ==
    \A r1, r2 \in table :
        (r1.name = r2.name /\ r1.tenantId = r2.tenantId) => r1 = r2

\* Two executions for the same name and tenant that both found no role:
\* one has saved, the other's insert was refused.
C23_Witness ==
    \E i, j \in 1..Len(execs) :
        /\ i # j
        /\ execs[i].dto.name = execs[j].dto.name
        /\ execs[i].dto.tenantId = execs[j].dto.tenantId
        /\ execs[i].pc = "done"
        /\ execs[j].pc = "failed"
        /\ execs[j].error = "UniqueViolation"

\* C24: an execution of CreateRoleUseCase whose findByName(dto.name,
\* dto.tenantId) finds a role fails with DuplicateRoleException and leaves
\* the table as it is; one whose findByName finds none goes on to save, and
\* its save adds exactly one new row with the DTO's name, displayName (as
\* Role.create stores it) and permissions.
C24_DuplicateFailsOtherwiseOneRoleSaved ==
    [][\A i \in 1..Len(execs) :
          LET dto == execs[i].dto
          IN  /\ FindStep(i) =>
                    /\ table' = table
                    /\ IF findByName(table, dto.name, dto.tenantId) # {{}}
                       THEN /\ execs'[i].pc = "failed"
                            /\ execs'[i].error = "DuplicateRoleException"
                       ELSE execs'[i].pc = "save"
              /\ SaveStep(i) =>
                    \E row \in table' :
                        /\ row \notin table
                        /\ table' = table \cup {row}
                        /\ row.name = dto.name
                        /\ row.displayName = trim(dto.displayName)
                        /\ row.permissions = IF dto.permissions = Undefined
                                             THEN <<>> ELSE dto.permissions]_vars

\* C28: the save of an UpdateRoleUseCase execution whose DTO omits
\* permissions leaves the stored permissions of that role as they were, and
\* the save of one whose DTO omits displayName and description leaves those
\* two stored fields as they were, whatever other executions did meanwhile.
C28_OmittedFieldsStayStored ==
    [][\A i \in 1..Len(execs) :
          LET dto == execs[i].dto
          IN  SaveStep(i) =>
                 \A row \in table :
                    row.id = dto.roleId =>
                       \E after \in table' :
                          /\ after.id = row.id
                          /\ dto.permissions = Undefined =>
                                after.permissions = row.permissions
                          /\ (dto.displayName = Undefined /\ dto.description = Undefined) =>
                                /\ after.displayName = row.displayName
                                /\ after.description = row.description]_vars

=============================================================================
